---- MODULE Spec2Model ----
(***************************************************************************)
(* Model of hepplotlib/plot.py: four value records (StatError, Ratio1D,    *)
(* RatioStatError1D, Efficiency1D), their from_hist constructors, their    *)
(* plain dataclass constructors (which take arrays of any lengths), their  *)
(* derived properties and their rendering methods.  A rendering method     *)
(* ends in a call of matplotlib; the model records the arguments of that   *)
(* call, not what matplotlib does with them.                               *)
(*                                                                         *)
(* Numbers.  Every array of the program is a numpy float64 array, and the  *)
(* arithmetic on it is modelled bit for bit: a value is a sign, a 53-bit   *)
(* significand and an exponent, and +, -, /, 2* and sqrt round to nearest, *)
(* ties to even, as IEEE 754 does.  Division by zero yields inf or nan as  *)
(* numpy does instead of failing.  Not modelled: the sign of zero,         *)
(* overflow and subnormals (no exponent range).  Equality of two values is *)
(* equality of their representations, so nan is equal to nan here.         *)
(*                                                                         *)
(* Arrays.  numpy arrays are mutable objects, so they live in a heap (a    *)
(* sequence of arrays, an address is an index) and records hold addresses. *)
(* Every numpy operation that returns a new array allocates; the in-place  *)
(* operators overwrite the array at the target's address.  An operation on *)
(* shapes that do not broadcast raises ValueError: the call it is part of  *)
(* stops there and hands nothing to the plotting surface.                  *)
(***************************************************************************)
EXTENDS Integers, Sequences, FiniteSets, TLC

\* ------------------------------------------------------------------ bounds
MaxBins == 2
MaxWidth == 2
MaxVal == 3
MaxErr == 2

\* ------------------------------------------------------------- float64 values
\* A float64 is <<class, sign, exponent, hi, lo>>.  Class 0 is the finite
\* value (-1)^sign * (hi * 2^27 + lo) * 2^exponent, whose significand
\* hi * 2^27 + lo lies in [2^52, 2^53), or zero (every component 0); class 1
\* is the infinity of that sign; class 2 is nan.  A significand, and every
\* wider intermediate, is a pair <<hi, lo>> of limbs with 0 <= lo < 2^27.
Limb == 2^27

Pow2(k) == 2^k

Wide(hi, lo) == <<hi + lo \div Limb, lo % Limb>>

WAdd(a, b) == Wide(a[1] + b[1], a[2] + b[2])

\* a - b for a >= b
WSub(a, b) ==
    IF a[2] >= b[2] THEN <<a[1] - b[1], a[2] - b[2]>>
    ELSE <<a[1] - b[1] - 1, a[2] + Limb - b[2]>>

WGeq(a, b) == a[1] > b[1] \/ (a[1] = b[1] /\ a[2] >= b[2])

WDouble(a) == Wide(2 * a[1], 2 * a[2])

\* the number of bits of n, 0 <= n < 2^8
BitLen8(n) ==
    IF n >= 16
    THEN (IF n >= 64 THEN (IF n >= 128 THEN 8 ELSE 7) ELSE (IF n >= 32 THEN 6 ELSE 5))
    ELSE IF n >= 4 THEN (IF n >= 8 THEN 4 ELSE 3)
    ELSE IF n >= 2 THEN 2 ELSE n

\* the number of bits of n, 0 <= n < 2^31
BitLen(n) ==
    IF n >= 65536
    THEN (IF n >= 16777216 THEN 24 + BitLen8(n \div 16777216)
          ELSE 16 + BitLen8(n \div 65536))
    ELSE IF n >= 256 THEN 8 + BitLen8(n \div 256)
    ELSE BitLen8(n)

WBitLen(a) == IF a[1] > 0 THEN 27 + BitLen(a[1]) ELSE BitLen(a[2])

\* a shifted right by d bits
WShr(a, d) ==
    IF d = 0 THEN a
    ELSE IF d >= 58 THEN <<0, 0>>
    ELSE IF d >= 27 THEN Wide(0, a[1] \div Pow2(d - 27))
    ELSE <<a[1] \div Pow2(d), a[2] \div Pow2(d) + (a[1] % Pow2(d)) * Pow2(27 - d)>>

\* whether that shift drops a set bit
WLost(a, d) ==
    IF d = 0 THEN FALSE
    ELSE IF d >= 58 THEN a # <<0, 0>>
    ELSE IF d >= 27 THEN a[2] # 0 \/ a[1] % Pow2(d - 27) # 0
    ELSE a[2] % Pow2(d) # 0

\* a shifted left by d bits, the result below 2^58
WShl(a, d) ==
    IF d = 0 THEN a
    ELSE IF d >= 27 THEN Wide((a[1] * Limb + a[2]) * Pow2(d - 27), 0)
    ELSE <<a[1] * Pow2(d) + a[2] \div Pow2(27 - d), (a[2] % Pow2(27 - d)) * Pow2(d)>>

NaN == <<2, 0, 0, 0, 0>>

Inf == <<1, 0, 0, 0, 0>>

Zero == <<0, 0, 0, 0, 0>>

IsNaN(p) == p[1] = 2

IsInf(p) == p[1] = 1

IsZero(p) == p = Zero

Sig(p) == <<p[4], p[5]>>

\* the float64 nearest to (-1)^s * S * 2^exp, ties to even; sticky tells that
\* the exact value is slightly above S * 2^exp
Round(s, S, exp, sticky) ==
    LET Pack(r, e) ==
            IF r[1] >= Pow2(26) THEN <<0, s, e + 1, r[1] \div 2, 0>>
            ELSE <<0, s, e, r[1], r[2]>>
        Nearest(m, guard, rest, d) ==
            Pack(IF guard /\ (rest \/ m[2] % 2 = 1) THEN WAdd(m, <<0, 1>>) ELSE m,
                 exp + d)
        Cut(d) ==
            IF d <= 0 THEN Pack(WShl(S, -d), exp + d)
            ELSE Nearest(WShr(S, d), WShr(S, d - 1)[2] % 2 = 1,
                         sticky \/ WLost(S, d - 1), d)
    IN Cut(WBitLen(S) - 53)

\* the float64 of the integer n
Num(n) ==
    IF n = 0 THEN Zero
    ELSE Round(IF n < 0 THEN 1 ELSE 0, <<0, IF n < 0 THEN -n ELSE n>>, 0, FALSE)

Neg(p) == IF IsNaN(p) \/ IsZero(p) THEN p ELSE <<p[1], 1 - p[2], p[3], p[4], p[5]>>

\* p + q for finite nonzero p, q with p's exponent the larger: three guard
\* bits, the last one sticky
AddAligned(p, q) ==
    LET Sum(X, Y) ==
            IF p[2] = q[2] THEN Round(p[2], WAdd(X, Y), p[3] - 3, FALSE)
            ELSE IF X = Y THEN Zero
            ELSE Round(IF WGeq(X, Y) THEN p[2] ELSE q[2],
                       IF WGeq(X, Y) THEN WSub(X, Y) ELSE WSub(Y, X),
                       p[3] - 3, FALSE)
        Jam(Ys, lost) == IF lost /\ Ys[2] % 2 = 0 THEN WAdd(Ys, <<0, 1>>) ELSE Ys
        Align(Y8, d) == Sum(WShl(Sig(p), 3), Jam(WShr(Y8, d), WLost(Y8, d)))
    IN Align(WShl(Sig(q), 3), p[3] - q[3])

Add(p, q) ==
    IF IsNaN(p) \/ IsNaN(q) THEN NaN
    ELSE IF IsInf(p) /\ IsInf(q) THEN (IF p = q THEN p ELSE NaN)
    ELSE IF IsInf(p) THEN p
    ELSE IF IsInf(q) THEN q
    ELSE IF IsZero(p) THEN q
    ELSE IF IsZero(q) THEN p
    ELSE AddAligned(IF p[3] >= q[3] THEN p ELSE q, IF p[3] >= q[3] THEN q ELSE p)

Sub(p, q) == Add(p, Neg(q))

\* 2 * p
Twice(p) == IF p[1] # 0 \/ IsZero(p) THEN p ELSE <<0, p[2], p[3] + 1, p[4], p[5]>>

\* D * q for a digit q < 16
WTimes(D, q) == Wide(D[1] * q, D[2] * q)

\* One step of long division by D, 2^52 <= D < 2^53, in base 16, on
\* st = <<quotient digits, remainder>> with remainder < D.  The digit is
\* estimated from the high limbs; the estimate is the digit or one less.
DivStep(st, D) ==
    LET R == WShl(st[2], 4)
        q == R[1] \div (D[1] + 1)
        rem == WSub(R, WTimes(D, q))
        Q == WShl(st[1], 4)
    IN IF WGeq(rem, D) THEN <<WAdd(Q, <<0, q + 1>>), WSub(rem, D)>>
       ELSE <<WAdd(Q, <<0, q>>), rem>>

\* n >= 1 such steps: the first half of them, then the others
RECURSIVE DivLoop(_, _, _)
DivLoop(st, D, n) ==
    IF n = 1 THEN DivStep(st, D)
    ELSE LET half == DivLoop(st, D, n \div 2)
         IN IF WGeq(half[1], <<0, 0>>) THEN DivLoop(half, D, n - n \div 2) ELSE st

Xor(s, t) == IF s = t THEN 0 ELSE 1

\* p / q as numpy divides: x/0 is inf of x's sign, 0/0 and inf/inf are nan;
\* a division by a power of two only moves the exponent; otherwise 57 bits of
\* the quotient of the significands, one before the point, are rounded
Div(p, q) ==
    IF IsNaN(p) \/ IsNaN(q) THEN NaN
    ELSE IF IsInf(p) THEN (IF IsInf(q) THEN NaN ELSE <<1, Xor(p[2], q[2]), 0, 0, 0>>)
    ELSE IF IsInf(q) THEN Zero
    ELSE IF IsZero(q) THEN (IF IsZero(p) THEN NaN ELSE <<1, p[2], 0, 0, 0>>)
    ELSE IF IsZero(p) THEN Zero
    ELSE IF Sig(q) = <<Pow2(25), 0>>
         THEN <<0, Xor(p[2], q[2]), p[3] - q[3] - 52, p[4], p[5]>>
    ELSE LET Quotient(r) ==
                 Round(Xor(p[2], q[2]), r[1], p[3] - q[3] - 56, r[2] # <<0, 0>>)
         IN Quotient(DivLoop(IF WGeq(Sig(p), Sig(q))
                             THEN <<<<0, 1>>, WSub(Sig(p), Sig(q))>>
                             ELSE <<<<0, 0>>, Sig(p)>>,
                             Sig(q), 14))

\* p > 0, as in the mask `den > 0` (False for nan)
Positive(p) == ~IsNaN(p) /\ ~IsZero(p) /\ p[2] = 0

\* step i of the digit-by-digit square root of the 54- or 55-bit M on
\* st = <<root bits, remainder>>
SqrtStep(st, M, i) ==
    LET pair == IF i <= 27 THEN WShr(M, 54 - 2 * i)[2] % 4 ELSE 0
        r4 == WAdd(WDouble(WDouble(st[2])), <<0, pair>>)
        trial == WAdd(WDouble(WDouble(st[1])), <<0, 1>>)
    IN IF WGeq(r4, trial) THEN <<WAdd(WDouble(st[1]), <<0, 1>>), WSub(r4, trial)>>
       ELSE <<WDouble(st[1]), r4>>

\* steps i .. j, i <= j: the first half of them, then the others
RECURSIVE SqrtLoop(_, _, _, _)
SqrtLoop(st, M, i, j) ==
    IF i = j THEN SqrtStep(st, M, i)
    ELSE LET half == SqrtLoop(st, M, i, (i + j) \div 2)
         IN IF WGeq(half[1], <<0, 0>>) THEN SqrtLoop(half, M, (i + j) \div 2 + 1, j)
            ELSE st

\* np.sqrt: nan for a negative argument; the root of a power of four only
\* halves the exponent
Sqrt(p) ==
    IF IsNaN(p) \/ IsZero(p) THEN p
    ELSE IF p[2] = 1 THEN NaN
    ELSE IF IsInf(p) THEN p
    ELSE IF Sig(p) = <<Pow2(25), 0>> /\ p[3] % 2 = 0
         THEN <<0, 0, (p[3] + 52) \div 2 - 52, p[4], p[5]>>
    ELSE LET Root(r, e) == Round(0, r[1], e \div 2 - 28, r[2] # <<0, 0>>)
         IN Root(SqrtLoop(<<<<0, 0>>, <<0, 0>>>>,
                          IF p[3] % 2 = 1 THEN WDouble(Sig(p)) ELSE Sig(p), 1, 55),
                 IF p[3] % 2 = 1 THEN p[3] - 1 ELSE p[3])

\* ------------------------------------------------------------------ arrays
\* numpy broadcasting of two 1-d shapes: equal lengths, or one of length 1
Broadcastable(a, b) == Len(a) = Len(b) \/ Len(a) = 1 \/ Len(b) = 1

BroadcastLen(a, b) == IF Len(a) = 1 THEN Len(b) ELSE Len(a)

At(a, i) == IF Len(a) = 1 THEN a[1] ELSE a[i]

ArrAdd(a, b) == [i \in 1..BroadcastLen(a, b) |-> Add(At(a, i), At(b, i))]

ArrSub(a, b) == [i \in 1..BroadcastLen(a, b) |-> Sub(At(a, i), At(b, i))]

ArrDiv(a, b) == [i \in 1..BroadcastLen(a, b) |-> Div(At(a, i), At(b, i))]

\* scalar (op) array
ScalarAdd(c, a) == [i \in 1..Len(a) |-> Add(c, a[i])]

ScalarSub(c, a) == [i \in 1..Len(a) |-> Sub(c, a[i])]

\* 2 * a
ArrTwice(a) == [i \in 1..Len(a) |-> Twice(a[i])]

ArrHalf(a) == [i \in 1..Len(a) |-> Div(a[i], Num(2))]

ArrSqrt(a) == [i \in 1..Len(a) |-> Sqrt(a[i])]

\* a slip: np.tile(a, 2), the whole array twice
Repeat2_Tiled(a) == [i \in 1..(2 * Len(a)) |-> a[((i - 1) % Len(a)) + 1]]

\* np.repeat(a, 2): every element twice, in order
Repeat2(a) == [i \in 1..(2 * Len(a)) |-> a[(i + 1) \div 2]]

\* a slip: a[1:], only the first element dropped
Trim_FirstOnly(a) == IF Len(a) < 2 THEN <<>> ELSE SubSeq(a, 2, Len(a))

\* a[1:-1]: empty when a has fewer than three elements
Trim(a) == IF Len(a) < 3 THEN <<>> ELSE SubSeq(a, 2, Len(a) - 1)

Min(m, n) == IF m < n THEN m ELSE n

\* a slip: op_list = [operator.add, operator.sub]
Interleave_AddFirst(xs, xerrs) ==
    [i \in 1..(2 * Min(Len(xs), Len(xerrs))) |->
        IF i % 2 = 1 THEN Add(xs[(i + 1) \div 2], xerrs[(i + 1) \div 2])
        ELSE Sub(xs[i \div 2], xerrs[i \div 2])]

\* [op(x, xerr) for x, xerr in zip(xs, xerrs) for op in [sub, add]]
Interleave(xs, xerrs) ==
    [i \in 1..(2 * Min(Len(xs), Len(xerrs))) |->
        IF i % 2 = 1 THEN Sub(xs[(i + 1) \div 2], xerrs[(i + 1) \div 2])
        ELSE Add(xs[i \div 2], xerrs[i \div 2])]

\* -------------------------------------------------------------------- heap
\* The outcome of an operation: the heap after it, the address of its result
\* and whether it raised.
\* a freshly allocated array
New(hp, arr) == [hp |-> Append(hp, arr), ref |-> Len(hp) + 1, raised |-> FALSE]

\* ValueError: operands could not be broadcast together
Raise(hp) == [hp |-> hp, ref |-> 0, raised |-> TRUE]

\* target /= other, in place: the broadcast of the two must have the shape of
\* target, or numpy raises
IDiv(hp, target, other) ==
    IF Len(hp[other]) = Len(hp[target]) \/ Len(hp[other]) = 1
    THEN [hp |-> [hp EXCEPT ![target] = ArrDiv(hp[target], hp[other])],
          ref |-> target, raised |-> FALSE]
    ELSE Raise(hp)

\* The frame of a call: the heap, the addresses its local names are bound to
\* and whether an exception is on its way out.  A statement is an operator
\* from the frame before it to the frame after it; after a raise no
\* statement runs.
Frame(hp) == [hp |-> hp, loc |-> <<>>, raised |-> FALSE]

\* name = <the array at r.ref>, where r is the outcome of an operation
Bind(f, name, r) ==
    IF f.raised THEN f
    ELSE IF r.raised THEN [f EXCEPT !.raised = TRUE]
    ELSE [hp |-> r.hp, loc |-> (name :> r.ref) @@ f.loc, raised |-> FALSE]

\* name = <a new array>
Assign(f, name, arr) == Bind(f, name, New(f.hp, arr))

\* the array a local name is bound to
Val(f, name) == f.hp[f.loc[name]]

Refs(o) == {o[f] : f \in DOMAIN o \ {"kind"}}

Rank(live, a) == Cardinality({b \in live : b <= a})

\* what is left of the heap once a call has returned and its temporaries are
\* unreachable: the arrays the record holds, renumbered in address order
Collect(hp, o) ==
    LET live == Refs(o)
    IN [hp |-> [i \in 1..Cardinality(live) |->
                    hp[CHOOSE a \in live : Rank(live, a) = i]],
        obj |-> [f \in DOMAIN o |->
                    IF f = "kind" THEN o[f] ELSE Rank(live, o[f])]]

\* -------------------------------------------------------------- histograms
\* A histogram as the code reads it: the first axis' edges (len = bins + 1),
\* values() and variances() (len = bins).
Bins(h) == Len(h.edges) - 1

\* a slip: the lower edge of each bin taken for its centre
Centers_LowerEdges(h) == [i \in 1..Bins(h) |-> h.edges[i]]

\* x_axis.centers: the midpoint of each bin
Centers(h) ==
    [i \in 1..Bins(h) |-> Div(Add(h.edges[i], h.edges[i + 1]), Num(2))]

\* x_axis.widths: the difference of each bin's edges
Widths(h) == [i \in 1..Bins(h) |-> Sub(h.edges[i + 1], h.edges[i])]

\* the edges start/d, (start + w1)/d, (start + w1 + w2)/d, ... as float64
RECURSIVE EdgesFrom(_, _, _)
EdgesFrom(start, widths, d) ==
    IF widths = <<>> THEN <<Div(Num(start), Num(d))>>
    ELSE <<Div(Num(start), Num(d))>>
         \o EdgesFrom(start + Head(widths), Tail(widths), d)

SeqsOf(S, n) == [1..n -> S]

\* axes of up to MaxBins bins starting at 0, the bin widths whole multiples of
\* 1/d
AxesIn(d) ==
    {EdgesFrom(0, w, d) : w \in UNION {SeqsOf(1..MaxWidth, n) : n \in 0..MaxBins}}

\* edges at whole numbers
WholeAxes == AxesIn(1)

\* edges at whole numbers or at tenths
Axes == WholeAxes \cup AxesIn(10)

\* a bin holds 0, 1 or MaxVal
Values == {Num(0), Num(1), Num(MaxVal)}

\* a bin has no error or the error MaxErr
Variances == {Num(0), Num(MaxErr * MaxErr)}

HistsOn(axes) ==
    UNION {[edges : {ax}, values : SeqsOf(Values, Len(ax) - 1),
            variances : SeqsOf(Variances, Len(ax) - 1)] : ax \in axes}

Hists == HistsOn(Axes)

\* --------------------------------------------------------------- StatError
\* Records hold the addresses of their arrays; "kind" names the class and
\* "via" how the record was built.
\* a slip: self.y -= self.yerr, in place
StatError_ylow_InPlace(hp, self) ==
    IF Broadcastable(hp[self.y], hp[self.yerr])
    THEN [hp |-> [hp EXCEPT ![self.y] = ArrSub(hp[self.y], hp[self.yerr])],
          ref |-> self.y, raised |-> FALSE]
    ELSE Raise(hp)

StatError_ylow(hp, self) ==
    IF Broadcastable(hp[self.y], hp[self.yerr])
    THEN New(hp, ArrSub(hp[self.y], hp[self.yerr]))
    ELSE Raise(hp)

StatError_yup(hp, self) ==
    IF Broadcastable(hp[self.y], hp[self.yerr])
    THEN New(hp, ArrAdd(hp[self.y], hp[self.yerr]))
    ELSE Raise(hp)

\* zip stops at the shorter of x and xerr: this one never raises
StatError_edges(hp, self) == New(hp, Interleave(hp[self.x], hp[self.xerr]))

StatError_from_hist(hp, hist) ==
    LET S1(f) == Assign(f, "x", Centers(hist))
        S2(f) == Assign(f, "widths", Widths(hist))
        S3(f) == Assign(f, "xerr", ArrHalf(Val(f, "widths")))
        S4(f) == Assign(f, "y", hist.values)
        S5(f) == Assign(f, "variances", hist.variances)
        S6(f) == Assign(f, "yerr", ArrSqrt(Val(f, "variances")))
        Cls(f) ==
            [hp |-> f.hp,
             obj |-> [kind |-> "StatError", x |-> f.loc["x"], xerr |-> f.loc["xerr"],
                      y |-> f.loc["y"], yerr |-> f.loc["yerr"]]]
    IN Cls(S6(S5(S4(S3(S2(S1(Frame(hp))))))))

\* the heap after the call and the arguments handed to ax.fill_between
StatError_plot(hp, self, binwnorm) ==
    LET S1(f) == Bind(f, "self.ylow", StatError_ylow(f.hp, self))
        S2(f) == Assign(f, "ylow", Repeat2(Val(f, "self.ylow")))
        S3(f) == Bind(f, "self.yup", StatError_yup(f.hp, self))
        S4(f) == Assign(f, "yup", Repeat2(Val(f, "self.yup")))
        S5(f) == Assign(f, "2 * self.xerr", ArrTwice(f.hp[self.xerr]))
        S6(f) == Assign(f, "bin_widths", Repeat2(Val(f, "2 * self.xerr")))
        S7(f) == Bind(f, "ylow", IDiv(f.hp, f.loc["ylow"], f.loc["bin_widths"]))
        S8(f) == Bind(f, "yup", IDiv(f.hp, f.loc["yup"], f.loc["bin_widths"]))
        Norm(f) == IF binwnorm THEN S8(S7(S6(S5(f)))) ELSE f
        S9(f) == Bind(f, "self.edges", StatError_edges(f.hp, self))
        Call(f) ==
            IF f.raised THEN [hp |-> f.hp, raised |-> TRUE]
            ELSE [hp |-> f.hp, raised |-> FALSE,
                  call |-> [fn |-> "fill_between", x |-> Val(f, "self.edges"),
                            y1 |-> Val(f, "ylow"), y2 |-> Val(f, "yup")]]
    IN Call(S9(Norm(S4(S3(S2(S1(Frame(hp))))))))

\* ----------------------------------------------------------------- Ratio1D
\* a slip: y = mc_hist.values() / data_hist.values()
Ratio1D_from_hist_Inverted(hp, data_hist, mc_hist) ==
    LET S1(f) == Assign(f, "x", Centers(mc_hist))
        S2(f) == Assign(f, "y", ArrDiv(mc_hist.values, data_hist.values))
        S3(f) == Assign(f, "root", ArrSqrt(mc_hist.variances))
        S4(f) == Assign(f, "yerr", ArrDiv(Val(f, "root"), mc_hist.values))
        S5(f) == Assign(f, "widths", Widths(mc_hist))
        S6(f) == Assign(f, "xerr", ArrHalf(Val(f, "widths")))
        Cls(f) ==
            [hp |-> f.hp,
             obj |-> [kind |-> "Ratio1D", x |-> f.loc["x"], y |-> f.loc["y"],
                      xerr |-> f.loc["xerr"], yerr |-> f.loc["yerr"]]]
    IN Cls(S6(S5(S4(S3(S2(S1(Frame(hp))))))))

\* a slip: yerr = np.sqrt(data_hist.variances()) / mc_hist.values()
Ratio1D_from_hist_DataError(hp, data_hist, mc_hist) ==
    LET S1(f) == Assign(f, "x", Centers(mc_hist))
        S2(f) == Assign(f, "y", ArrDiv(data_hist.values, mc_hist.values))
        S3(f) == Assign(f, "root", ArrSqrt(data_hist.variances))
        S4(f) == Assign(f, "yerr", ArrDiv(Val(f, "root"), mc_hist.values))
        S5(f) == Assign(f, "widths", Widths(mc_hist))
        S6(f) == Assign(f, "xerr", ArrHalf(Val(f, "widths")))
        Cls(f) ==
            [hp |-> f.hp,
             obj |-> [kind |-> "Ratio1D", x |-> f.loc["x"], y |-> f.loc["y"],
                      xerr |-> f.loc["xerr"], yerr |-> f.loc["yerr"]]]
    IN Cls(S6(S5(S4(S3(S2(S1(Frame(hp))))))))

Ratio1D_from_hist(hp, data_hist, mc_hist) ==
    LET S1(f) == Assign(f, "x", Centers(mc_hist))
        S2(f) == Assign(f, "y", ArrDiv(data_hist.values, mc_hist.values))
        S3(f) == Assign(f, "root", ArrSqrt(mc_hist.variances))
        S4(f) == Assign(f, "yerr", ArrDiv(Val(f, "root"), mc_hist.values))
        S5(f) == Assign(f, "widths", Widths(mc_hist))
        S6(f) == Assign(f, "xerr", ArrHalf(Val(f, "widths")))
        Cls(f) ==
            [hp |-> f.hp,
             obj |-> [kind |-> "Ratio1D", x |-> f.loc["x"], y |-> f.loc["y"],
                      xerr |-> f.loc["xerr"], yerr |-> f.loc["yerr"]]]
    IN Cls(S6(S5(S4(S3(S2(S1(Frame(hp))))))))

\* data_hist.values() / mc_hist.values() raises ValueError on shapes that do
\* not broadcast
Ratio1D_from_hist_raises(data_hist, mc_hist) ==
    ~Broadcastable(data_hist.values, mc_hist.values)

Ratio1D_plot(hp, self) ==
    [hp |-> hp, raised |-> FALSE,
     call |-> [fn |-> "errorbar", x |-> hp[self.x], y |-> hp[self.y],
               yerr |-> hp[self.yerr], xerr |-> hp[self.xerr]]]

\* -------------------------------------------------------- RatioStatError1D
RatioStatError1D_ylow(hp, self) == New(hp, ScalarSub(Num(1), hp[self.yerr]))

RatioStatError1D_yup(hp, self) == New(hp, ScalarAdd(Num(1), hp[self.yerr]))

\* a slip: edges = hist.axes[0].centers
RatioStatError1D_from_hist_Centers(hp, hist) ==
    LET S1(f) == Assign(f, "edges", Centers(hist))
        S2(f) == Assign(f, "root", ArrSqrt(hist.variances))
        S3(f) == Assign(f, "yerr", ArrDiv(Val(f, "root"), hist.values))
        Cls(f) ==
            [hp |-> f.hp,
             obj |-> [kind |-> "RatioStatError1D", edges |-> f.loc["edges"],
                      yerr |-> f.loc["yerr"]]]
    IN Cls(S3(S2(S1(Frame(hp)))))

RatioStatError1D_from_hist(hp, hist) ==
    LET S1(f) == Assign(f, "edges", hist.edges)
        S2(f) == Assign(f, "root", ArrSqrt(hist.variances))
        S3(f) == Assign(f, "yerr", ArrDiv(Val(f, "root"), hist.values))
        Cls(f) ==
            [hp |-> f.hp,
             obj |-> [kind |-> "RatioStatError1D", edges |-> f.loc["edges"],
                      yerr |-> f.loc["yerr"]]]
    IN Cls(S3(S2(S1(Frame(hp)))))

RatioStatError1D_fill_between(hp, self) ==
    LET S1(f) == Assign(f, "repeated", Repeat2(f.hp[self.edges]))
        S2(f) == Assign(f, "x", Trim(Val(f, "repeated")))
        S3(f) == Bind(f, "self.ylow", RatioStatError1D_ylow(f.hp, self))
        S4(f) == Assign(f, "ylow", Repeat2(Val(f, "self.ylow")))
        S5(f) == Bind(f, "self.yup", RatioStatError1D_yup(f.hp, self))
        S6(f) == Assign(f, "yup", Repeat2(Val(f, "self.yup")))
        Call(f) ==
            [hp |-> f.hp, raised |-> FALSE,
             call |-> [fn |-> "fill_between", x |-> Val(f, "x"),
                       y1 |-> Val(f, "ylow"), y2 |-> Val(f, "yup")]]
    IN Call(S6(S5(S4(S3(S2(S1(Frame(hp))))))))

\* ------------------------------------------------------------ Efficiency1D
\* np.divide(num, den, where=den > 0) with no out= argument: the result is
\* allocated uninitialised and written only where the mask holds, so the
\* other positions keep whatever the memory held (junk[i]).
DivideWhere(num, den, junk) ==
    [i \in 1..BroadcastLen(num, den) |->
        IF Positive(At(den, i)) THEN Div(At(num, i), At(den, i)) ELSE junk[i]]

\* what uninitialised memory may hold
Uninitialised == {Num(0), Num(1), NaN}

\* the contents of a fresh array of length n before np.divide writes to it;
\* only the positions the mask leaves out are ever read
Junk(den, n) ==
    {j \in SeqsOf(Uninitialised, n) :
        \A i \in 1..n : Positive(At(den, i)) => j[i] = Num(0)}

\* clopper_pearson_interval(num, den) is an external routine: per bin it
\* returns some lower and upper bound; which one is not modelled.
Intervals == {<<Num(0), Div(Num(1), Num(2))>>, <<Div(Num(1), Num(2)), Num(1)>>}

clopper_pearson_interval(num, den) ==
    {<<[i \in 1..BroadcastLen(num, den) |-> iv[i][1]],
       [i \in 1..BroadcastLen(num, den) |-> iv[i][2]]>> :
        iv \in SeqsOf(Intervals, BroadcastLen(num, den))}

Efficiency1D_from_hist(hp, h_num, h_den, junk, interval) ==
    LET S1(f) == Assign(f, "x", Centers(h_den))
        S2(f) == Assign(f, "y", DivideWhere(h_num.values, h_den.values, junk))
        S3(f) == Assign(f, "ylow", interval[1])
        S4(f) == Assign(f, "yup", interval[2])
        S5(f) == Assign(f, "xerr", Widths(h_den))
        Cls(f) ==
            [hp |-> f.hp,
             obj |-> [kind |-> "Efficiency1D", x |-> f.loc["x"], y |-> f.loc["y"],
                      ylow |-> f.loc["ylow"], yup |-> f.loc["yup"],
                      xerr |-> f.loc["xerr"]]]
    IN Cls(S5(S4(S3(S2(S1(Frame(hp)))))))

Efficiency1D_from_hist_raises(h_num, h_den) ==
    ~Broadcastable(h_num.values, h_den.values)

Efficiency1D_yerr_low(hp, self) ==
    IF Broadcastable(hp[self.y], hp[self.ylow])
    THEN New(hp, ArrSub(hp[self.y], hp[self.ylow]))
    ELSE Raise(hp)

Efficiency1D_yerr_up(hp, self) ==
    IF Broadcastable(hp[self.yup], hp[self.y])
    THEN New(hp, ArrSub(hp[self.yup], hp[self.y]))
    ELSE Raise(hp)

\* a slip: return (self.yerr_up, self.yerr_low)
Efficiency1D_yerr_Swapped(hp, self) ==
    LET S1(f) == Bind(f, "self.yerr_up", Efficiency1D_yerr_up(f.hp, self))
        S2(f) == Bind(f, "self.yerr_low", Efficiency1D_yerr_low(f.hp, self))
        Tuple(f) ==
            IF f.raised THEN Raise(f.hp)
            ELSE [hp |-> f.hp, raised |-> FALSE,
                  ref |-> <<f.loc["self.yerr_up"], f.loc["self.yerr_low"]>>]
    IN Tuple(S2(S1(Frame(hp))))

\* the tuple (yerr_low, yerr_up)
Efficiency1D_yerr(hp, self) ==
    LET S1(f) == Bind(f, "self.yerr_low", Efficiency1D_yerr_low(f.hp, self))
        S2(f) == Bind(f, "self.yerr_up", Efficiency1D_yerr_up(f.hp, self))
        Tuple(f) ==
            IF f.raised THEN Raise(f.hp)
            ELSE [hp |-> f.hp, raised |-> FALSE,
                  ref |-> <<f.loc["self.yerr_low"], f.loc["self.yerr_up"]>>]
    IN Tuple(S2(S1(Frame(hp))))

NoArray == [none |-> TRUE]

Some(a) == [none |-> FALSE, val |-> a]

\* xerr_arr is chosen first, then self.yerr is read
Efficiency1D_plot(hp, self, xerr) ==
    LET S1(f) == Bind(f, "self.yerr", Efficiency1D_yerr(f.hp, self))
        Call(f) ==
            IF f.raised THEN [hp |-> f.hp, raised |-> TRUE]
            ELSE [hp |-> f.hp, raised |-> FALSE,
                  call |-> [fn |-> "errorbar", x |-> f.hp[self.x], y |-> f.hp[self.y],
                            yerr |-> <<f.hp[f.loc["self.yerr"][1]],
                                       f.hp[f.loc["self.yerr"][2]]>>,
                            xerr |-> IF xerr THEN Some(f.hp[self.xerr]) ELSE NoArray]]
    IN Call(S1(Frame(hp)))

\* ----------------------------------------------------------- state machine
VARIABLES
    input,  \* the caller's data: one histogram, two histograms or raw arrays
    heap,   \* the arrays reachable from obj
    obj,    \* the record under construction and use (addresses into heap)
    via,    \* how obj was built: "from_hist" or "init" (the plain constructor)
    out     \* the last call into the plotting surface, or property read

vars == <<input, heap, obj, via, out>>

NoObject == [kind |-> "None"]

NoCall == [method |-> "none", raised |-> FALSE]

\* raw arrays for the plain constructor RatioStatError1D(edges, yerr)
RawEdges == Axes \cup {<<>>}

RawErrors == UNION {SeqsOf({Num(0), Num(1)}, n) : n \in 0..MaxBins}

\* raw arrays for the plain constructors of the other classes, which accept
\* arrays of any lengths: up to MaxBins elements, each 1 or 2
RawArrays == UNION {SeqsOf({Num(1), Num(2)}, n) : n \in 0..MaxBins}

\* for the fields a class only hands on: one array of each length
PassArrays == {[i \in 1..n |-> Num(i)] : n \in 0..MaxBins}

\* unit bins: the axis of data_hist and of h_num is never read
UnitBins(h) == \A i \in 1..Bins(h) : Widths(h)[i] = Num(1)

\* unweighted counts: the variance of a bin is its value
Counts(ax) ==
    {[edges |-> ax, values |-> v, variances |-> v] : v \in SeqsOf(Values, Len(ax) - 1)}

CountHists == UNION {Counts(ax) : ax \in WholeAxes}

\* the same bins with no error at all
NoError(h) == [h EXCEPT !.variances = [i \in 1..Bins(h) |-> Num(0)]]

HistInputs ==
    [tag : {"hist"}, hist : Hists]
    \cup [tag : {"arrays"}, edges : RawEdges, yerr : RawErrors]
    \cup [tag : {"StatError"}, x : RawArrays, xerr : RawArrays, y : RawArrays,
          yerr : RawArrays]

\* data: unweighted counts, with their errors or stripped of them
DataHists ==
    {h \in CountHists : UnitBins(h)} \cup {NoError(h) : h \in {g \in CountHists : UnitBins(g)}}

McHists == HistsOn(WholeAxes)

RatioInputs ==
    [tag : {"ratio"}, data_hist : DataHists, mc_hist : McHists]
    \cup [tag : {"Ratio1D"}, x : PassArrays, y : PassArrays, xerr : PassArrays,
          yerr : PassArrays]

EffInputs ==
    [tag : {"efficiency"}, h_num : {h \in CountHists : UnitBins(h)},
     h_den : CountHists]
    \cup [tag : {"Efficiency1D"}, x : PassArrays, y : RawArrays, ylow : RawArrays,
          yup : RawArrays, xerr : PassArrays]

Fresh ==
    /\ heap = <<>>
    /\ obj = NoObject
    /\ via = "none"
    /\ out = NoCall

InitHist == input \in HistInputs /\ Fresh

InitRatio == input \in RatioInputs /\ Fresh

InitEff == input \in EffInputs /\ Fresh

Init == input \in HistInputs \cup RatioInputs \cup EffInputs /\ Fresh

\* a constructor returned r = [hp, obj]: keep what the record reaches
Built(r, how) ==
    LET c == Collect(r.hp, r.obj)
    IN /\ heap' = c.hp
       /\ obj' = c.obj
       /\ via' = how
       /\ out' = NoCall
       /\ UNCHANGED input

Raised(method) ==
    /\ heap' = <<>>
    /\ obj' = NoObject
    /\ via' = "none"
    /\ out' = [method |-> method, raised |-> TRUE]
    /\ UNCHANGED input

\* a method of obj returned, or raised, with heap hp and left `result` with
\* the caller
Returned(hp, result) ==
    LET c == Collect(hp, obj)
    IN /\ heap' = c.hp
       /\ obj' = c.obj
       /\ out' = result
       /\ UNCHANGED <<input, via>>

\* The constructors build the record of the run: they act once, on the
\* caller's input, before any method of the record does.
StatErrorFromHist ==
    /\ obj = NoObject
    /\ input.tag = "hist"
    /\ Built(StatError_from_hist(heap, input.hist), "from_hist")

\* the dataclass constructor StatError(x, xerr, y, yerr) on raw arrays
StatErrorInit ==
    /\ obj = NoObject
    /\ input.tag = "StatError"
    /\ LET S1(f) == Assign(f, "x", input.x)
           S2(f) == Assign(f, "xerr", input.xerr)
           S3(f) == Assign(f, "y", input.y)
           S4(f) == Assign(f, "yerr", input.yerr)
           Cls(f) ==
               [hp |-> f.hp,
                obj |-> [kind |-> "StatError", x |-> f.loc["x"],
                         xerr |-> f.loc["xerr"], y |-> f.loc["y"],
                         yerr |-> f.loc["yerr"]]]
       IN Built(Cls(S4(S3(S2(S1(Frame(heap)))))), "init")

StatErrorPlot(binwnorm) ==
    /\ obj.kind = "StatError"
    /\ LET Ret(r) ==
               Returned(r.hp,
                        IF r.raised
                        THEN [method |-> "StatError.plot", binwnorm |-> binwnorm,
                              raised |-> TRUE]
                        ELSE [method |-> "StatError.plot", binwnorm |-> binwnorm,
                              raised |-> FALSE, call |-> r.call])
       IN Ret(StatError_plot(heap, obj, binwnorm))

\* a read of the property ylow, yup or edges
StatErrorProps ==
    /\ obj.kind = "StatError"
    /\ \E prop \in {"ylow", "yup", "edges"} :
          LET Ret(r) ==
                  Returned(r.hp,
                           IF r.raised
                           THEN [method |-> "StatError.props", prop |-> prop,
                                 raised |-> TRUE]
                           ELSE [method |-> "StatError.props", prop |-> prop,
                                 raised |-> FALSE, value |-> r.hp[r.ref]])
          IN Ret(IF prop = "ylow" THEN StatError_ylow(heap, obj)
                 ELSE IF prop = "yup" THEN StatError_yup(heap, obj)
                 ELSE StatError_edges(heap, obj))

Ratio1DFromHist ==
    /\ obj = NoObject
    /\ out = NoCall
    /\ input.tag = "ratio"
    /\ IF Ratio1D_from_hist_raises(input.data_hist, input.mc_hist)
       THEN Raised("Ratio1D.from_hist")
       ELSE Built(Ratio1D_from_hist(heap, input.data_hist, input.mc_hist),
                  "from_hist")

\* the dataclass constructor Ratio1D(x, y, xerr, yerr) on raw arrays
Ratio1DInit ==
    /\ obj = NoObject
    /\ input.tag = "Ratio1D"
    /\ LET S1(f) == Assign(f, "x", input.x)
           S2(f) == Assign(f, "y", input.y)
           S3(f) == Assign(f, "xerr", input.xerr)
           S4(f) == Assign(f, "yerr", input.yerr)
           Cls(f) ==
               [hp |-> f.hp,
                obj |-> [kind |-> "Ratio1D", x |-> f.loc["x"], y |-> f.loc["y"],
                         xerr |-> f.loc["xerr"], yerr |-> f.loc["yerr"]]]
       IN Built(Cls(S4(S3(S2(S1(Frame(heap)))))), "init")

Ratio1DPlot ==
    /\ obj.kind = "Ratio1D"
    /\ LET Ret(r) ==
               Returned(r.hp, [method |-> "Ratio1D.plot", raised |-> FALSE,
                               call |-> r.call])
       IN Ret(Ratio1D_plot(heap, obj))

RatioStatError1DFromHist ==
    /\ obj = NoObject
    /\ input.tag = "hist"
    /\ Built(RatioStatError1D_from_hist(heap, input.hist), "from_hist")

\* the dataclass constructor on raw arrays
RatioStatError1DInit ==
    /\ obj = NoObject
    /\ input.tag = "arrays"
    /\ LET S1(f) == Assign(f, "edges", input.edges)
           S2(f) == Assign(f, "yerr", input.yerr)
           Cls(f) ==
               [hp |-> f.hp,
                obj |-> [kind |-> "RatioStatError1D", edges |-> f.loc["edges"],
                         yerr |-> f.loc["yerr"]]]
       IN Built(Cls(S2(S1(Frame(heap)))), "init")

RatioStatError1DFillBetween ==
    /\ obj.kind = "RatioStatError1D"
    /\ LET Ret(r) ==
               Returned(r.hp, [method |-> "RatioStatError1D.fill_between",
                               raised |-> FALSE, call |-> r.call])
       IN Ret(RatioStatError1D_fill_between(heap, obj))

\* a read of the properties ylow and yup: a scalar broadcasts with any array
RatioStatError1DProps ==
    /\ obj.kind = "RatioStatError1D"
    /\ LET S1(f) == Bind(f, "ylow", RatioStatError1D_ylow(f.hp, obj))
           S2(f) == Bind(f, "yup", RatioStatError1D_yup(f.hp, obj))
           Ret(f) ==
               Returned(f.hp, [method |-> "RatioStatError1D.props",
                               raised |-> FALSE,
                               ylow |-> Val(f, "ylow"), yup |-> Val(f, "yup")])
       IN Ret(S2(S1(Frame(heap))))

Efficiency1DFromHist ==
    /\ obj = NoObject
    /\ out = NoCall
    /\ input.tag = "efficiency"
    /\ IF Efficiency1D_from_hist_raises(input.h_num, input.h_den)
       THEN Raised("Efficiency1D.from_hist")
       ELSE \E junk \in Junk(input.h_den.values,
                             BroadcastLen(input.h_num.values, input.h_den.values)),
               interval \in clopper_pearson_interval(input.h_num.values,
                                                     input.h_den.values) :
               Built(Efficiency1D_from_hist(heap, input.h_num, input.h_den,
                                            junk, interval), "from_hist")

\* the dataclass constructor Efficiency1D(x, y, ylow, yup, xerr) on raw arrays
Efficiency1DInit ==
    /\ obj = NoObject
    /\ input.tag = "Efficiency1D"
    /\ LET S1(f) == Assign(f, "x", input.x)
           S2(f) == Assign(f, "y", input.y)
           S3(f) == Assign(f, "ylow", input.ylow)
           S4(f) == Assign(f, "yup", input.yup)
           S5(f) == Assign(f, "xerr", input.xerr)
           Cls(f) ==
               [hp |-> f.hp,
                obj |-> [kind |-> "Efficiency1D", x |-> f.loc["x"], y |-> f.loc["y"],
                         ylow |-> f.loc["ylow"], yup |-> f.loc["yup"],
                         xerr |-> f.loc["xerr"]]]
       IN Built(Cls(S5(S4(S3(S2(S1(Frame(heap))))))), "init")

Efficiency1DPlot(xerr) ==
    /\ obj.kind = "Efficiency1D"
    /\ LET Ret(r) ==
               Returned(r.hp,
                        IF r.raised
                        THEN [method |-> "Efficiency1D.plot", xerr |-> xerr,
                              raised |-> TRUE]
                        ELSE [method |-> "Efficiency1D.plot", xerr |-> xerr,
                              raised |-> FALSE, call |-> r.call])
       IN Ret(Efficiency1D_plot(heap, obj, xerr))

\* a read of the property yerr
Efficiency1DProps ==
    /\ obj.kind = "Efficiency1D"
    /\ LET Ret(r) ==
               Returned(r.hp,
                        IF r.raised
                        THEN [method |-> "Efficiency1D.props", raised |-> TRUE]
                        ELSE [method |-> "Efficiency1D.props", raised |-> FALSE,
                              yerr_low |-> r.hp[r.ref[1]],
                              yerr_up |-> r.hp[r.ref[2]]])
       IN Ret(Efficiency1D_yerr(heap, obj))

NextHist ==
    \/ StatErrorFromHist
    \/ StatErrorInit
    \/ \E binwnorm \in BOOLEAN : StatErrorPlot(binwnorm)
    \/ StatErrorProps
    \/ RatioStatError1DFromHist
    \/ RatioStatError1DInit
    \/ RatioStatError1DFillBetween
    \/ RatioStatError1DProps

NextRatio ==
    \/ Ratio1DFromHist
    \/ Ratio1DInit
    \/ Ratio1DPlot

NextEff ==
    \/ Efficiency1DFromHist
    \/ Efficiency1DInit
    \/ \E xerr \in BOOLEAN : Efficiency1DPlot(xerr)
    \/ Efficiency1DProps

Next == NextHist \/ NextRatio \/ NextEff

\* every class, on every input
Spec == Init /\ [][Next]_vars

\* the single-histogram classes
SpecHist == InitHist /\ [][NextHist]_vars

\* Ratio1D on pairs of histograms
SpecRatio == InitRatio /\ [][NextRatio]_vars

\* Efficiency1D on pairs of histograms
SpecEff == InitEff /\ [][NextEff]_vars

\* ================================================================== claims
\* the array a field of obj holds
Field(f) == heap[obj[f]]

\* C1 as claimed: Efficiency1D.from_hist on numerator and denominator arrays
\* of equal length gives y[i] = 0 where den[i] = 0 and y[i] = num[i]/den[i]
\* where den[i] > 0.
C1_ZeroFill ==
    (/\ obj.kind = "Efficiency1D"
     /\ via = "from_hist"
     /\ Len(input.h_num.values) = Len(input.h_den.values))
    => \A i \in 1..Len(Field("y")) :
          LET num == input.h_num.values[i]
              den == input.h_den.values[i]
          IN /\ den = Num(0) => Field("y")[i] = Num(0)
             /\ Positive(den) => Field("y")[i] = Div(num, den)

\* C4: StatError.edges of a StatError with N bins (x and xerr of length N,
\* as from_hist builds them and as the plain constructor may) has length 2N
\* and is the interleaved sequence x[0]-xerr[0], x[0]+xerr[0], x[1]-xerr[1],
\* ...; reading it never raises.
C4_EdgesInterleaved ==
    (out.method = "StatError.props" /\ out.prop = "edges")
    => LET N == Len(Field("x"))
       IN /\ ~out.raised
          /\ via = "from_hist" => Len(Field("xerr")) = N
          /\ Len(Field("xerr")) = N
             => /\ Len(out.value) = 2 * N
                /\ \A i \in 0..(N - 1) :
                      /\ out.value[2 * i + 1]
                            = Sub(Field("x")[i + 1], Field("xerr")[i + 1])
                      /\ out.value[2 * i + 2]
                            = Add(Field("x")[i + 1], Field("xerr")[i + 1])

\* the example of the specification: bins centred at 0.5 and 1.5 with
\* half-width 0.5 have edges 0, 1, 1, 2
C4_Witness ==
    /\ out.method = "StatError.props"
    /\ out.prop = "edges"
    /\ Field("x") = <<Div(Num(1), Num(2)), Div(Num(3), Num(2))>>
    /\ Field("xerr") = <<Div(Num(1), Num(2)), Div(Num(1), Num(2))>>
    /\ out.value = <<Num(0), Num(1), Num(1), Num(2)>>

\* C5: StatError.plot on a StatError with N bins (its four arrays of length
\* N) hands fill_between bounds of length 2N aligned with edges; positions 2i
\* and 2i+1 hold y[i]-yerr[i] and y[i]+yerr[i], each divided by the bin's own
\* width 2*xerr[i] when binwnorm is set.
C5_PlotBounds ==
    out.method = "StatError.plot"
    => LET N == Len(Field("y"))
           Scaled(v, i) == IF out.binwnorm
                           THEN Div(v, Twice(Field("xerr")[i]))
                           ELSE v
       IN /\ via = "from_hist" => ~out.raised
          /\ (Len(Field("x")) = N /\ Len(Field("xerr")) = N /\ Len(Field("yerr")) = N)
             => /\ ~out.raised
                /\ Len(out.call.x) = 2 * N
                /\ Len(out.call.y1) = 2 * N
                /\ Len(out.call.y2) = 2 * N
                /\ \A i \in 1..N : \A k \in {2 * i - 1, 2 * i} :
                      /\ out.call.y1[k]
                            = Scaled(Sub(Field("y")[i], Field("yerr")[i]), i)
                      /\ out.call.y2[k]
                            = Scaled(Add(Field("y")[i], Field("yerr")[i]), i)

\* a two-bin StatError with bins of width 1 and 2, drawn with binwnorm: the
\* upper bound of the unit bin is kept, that of the wide bin is halved
C5_Witness ==
    /\ out.method = "StatError.plot"
    /\ out.binwnorm
    /\ ~out.raised
    /\ Field("xerr") = <<Div(Num(1), Num(2)), Num(1)>>
    /\ Field("y") = <<Num(1), Num(MaxVal)>>
    /\ Field("yerr") = <<Num(0), Num(MaxErr)>>
    /\ out.call.y2[1] = Num(1)
    /\ out.call.y2[3] = Div(Add(Num(MaxVal), Num(MaxErr)), Num(2))
    /\ out.call.y2[3] # Add(Num(MaxVal), Num(MaxErr))

\* the bin count N of the histogram(s) obj was built from, when they agree
SameBins ==
    /\ input.tag = "ratio" => Bins(input.data_hist) = Bins(input.mc_hist)
    /\ input.tag = "efficiency" => Bins(input.h_num) = Bins(input.h_den)

InputBins ==
    IF input.tag = "hist" THEN Bins(input.hist)
    ELSE IF input.tag = "ratio" THEN Bins(input.mc_hist)
    ELSE Bins(input.h_den)

StoredFields == DOMAIN obj \ {"kind"}

EdgesLen == LET e == StatError_edges(heap, obj) IN Len(e.hp[e.ref])

\* C2 as claimed: every array of a record built by from_hist from
\* histogram(s) with N bins has length N, the derived StatError.edges (2N)
\* being the only exception.
C2_AllLengthN ==
    (via = "from_hist" /\ SameBins)
    => /\ \A f \in StoredFields : Len(Field(f)) = InputBins
       /\ obj.kind = "StatError" => EdgesLen = 2 * InputBins

\* C2 amended: the same, with a second exception: the stored field
\* RatioStatError1D.edges holds the N+1 bin edges.
C2_Lengths ==
    (via = "from_hist" /\ SameBins)
    => /\ \A f \in StoredFields :
            Len(Field(f)) = IF obj.kind = "RatioStatError1D" /\ f = "edges"
                            THEN InputBins + 1
                            ELSE InputBins
       /\ obj.kind = "StatError" => EdgesLen = 2 * InputBins

C2_Witness ==
    /\ via = "from_hist"
    /\ obj.kind = "RatioStatError1D"
    /\ InputBins = MaxBins
    /\ Len(Field("yerr")) = MaxBins
    /\ Len(Field("edges")) = MaxBins + 1

\* the values of the stored fields
FieldValues(hp, o) == [f \in DOMAIN o \ {"kind"} |-> hp[o[f]]]

Methods ==
    {"StatError.plot", "StatError.props", "Ratio1D.plot",
     "RatioStatError1D.fill_between", "RatioStatError1D.props",
     "Efficiency1D.plot", "Efficiency1D.props"}

\* C3: a rendering method or a property read, whether it returns or raises,
\* leaves every stored field of the record as it was, and StatError.plot
\* called again with the same binwnorm hands over the same arrays.
C3_NoMutation ==
    [][out'.method \in Methods
       => /\ obj'.kind = obj.kind
          /\ FieldValues(heap', obj') = FieldValues(heap, obj)
          /\ (/\ out.method = "StatError.plot"
              /\ out'.method = "StatError.plot"
              /\ out'.binwnorm = out.binwnorm) => out' = out]_vars

\* StatError.plot(binwnorm=True) has divided its bounds in place (the upper
\* bound handed over is not y + yerr) and y, yerr are what from_hist stored
C3_Witness ==
    /\ out.method = "StatError.plot"
    /\ out.binwnorm
    /\ ~out.raised
    /\ via = "from_hist"
    /\ Field("y") = input.hist.values
    /\ Field("yerr") = ArrSqrt(input.hist.variances)
    /\ \E i \in 1..Len(Field("y")) :
          out.call.y2[2 * i] # Add(Field("y")[i], Field("yerr")[i])

\* C6 as claimed: for every RatioStatError1D the x array of fill_between has
\* length 2*(len(edges)-1), x[2i] = edges[i] and x[2i+1] = edges[i+1]; built
\* by from_hist, the bounds have that length and hold 1-yerr[i] and
\* 1+yerr[i] at positions 2i and 2i+1.
C6_StepProfile ==
    out.method = "RatioStatError1D.fill_between"
    => LET edges == Field("edges")
           yerr == Field("yerr")
           x == out.call.x
       IN /\ Len(x) = 2 * (Len(edges) - 1)
          /\ \A i \in 1..(Len(edges) - 1) :
                x[2 * i - 1] = edges[i] /\ x[2 * i] = edges[i + 1]
          /\ via = "from_hist"
             => /\ Len(out.call.y1) = Len(x)
                /\ Len(out.call.y2) = Len(x)
                /\ \A i \in 1..Len(yerr) : \A k \in {2 * i - 1, 2 * i} :
                      /\ out.call.y1[k] = Sub(Num(1), yerr[i])
                      /\ out.call.y2[k] = Add(Num(1), yerr[i])

\* C6 amended: the same for every RatioStatError1D that has at least one
\* edge; with no edge at all the x array is empty.
C6_StepProfileNonEmpty ==
    out.method = "RatioStatError1D.fill_between"
    => IF Len(Field("edges")) = 0 THEN out.call.x = <<>> ELSE C6_StepProfile

\* from_hist on bins [0, 1] and [1, 1 + MaxWidth] holding 1 +- MaxErr
\* and MaxVal +- 0
C6_Witness ==
    /\ out.method = "RatioStatError1D.fill_between"
    /\ via = "from_hist"
    /\ Field("edges") = <<Num(0), Num(1), Num(1 + MaxWidth)>>
    /\ out.call.x = <<Num(0), Num(1), Num(1), Num(1 + MaxWidth)>>
    /\ Field("yerr") = <<Num(MaxErr), Num(0)>>
    /\ out.call.y1 = <<Sub(Num(1), Num(MaxErr)), Sub(Num(1), Num(MaxErr)),
                       Num(1), Num(1)>>
    /\ out.call.y2[1] = Add(Num(1), Num(MaxErr))

\* C7: Ratio1D.from_hist(data_hist, mc_hist) has y[i] = data[i]/mc[i] and
\* yerr[i] = sqrt(mc_variance[i])/mc[i], with x the bin centres and xerr the
\* half bin widths of mc_hist's first axis.
C7_RatioFields ==
    (obj.kind = "Ratio1D" /\ via = "from_hist")
    => LET data == input.data_hist.values
           mc == input.mc_hist.values
           e == input.mc_hist.edges
           N == Bins(input.mc_hist)
       IN /\ Len(Field("y")) = BroadcastLen(data, mc)
          /\ \A i \in 1..Len(Field("y")) :
                Field("y")[i] = Div(At(data, i), At(mc, i))
          /\ Len(Field("yerr")) = N /\ Len(Field("x")) = N /\ Len(Field("xerr")) = N
          /\ \A i \in 1..N :
                /\ Field("yerr")[i] = Div(Sqrt(input.mc_hist.variances[i]), mc[i])
                /\ Field("x")[i] = Div(Add(e[i], e[i + 1]), Num(2))
                /\ Field("xerr")[i] = Div(Sub(e[i + 1], e[i]), Num(2))

C7_Witness ==
    /\ obj.kind = "Ratio1D"
    /\ via = "from_hist"
    /\ input.data_hist.values = <<Num(1), Num(MaxVal)>>
    /\ input.mc_hist.values = <<Num(MaxVal), Num(1)>>
    /\ input.mc_hist.variances = <<Num(MaxErr * MaxErr), Num(MaxErr * MaxErr)>>
    /\ Field("y") = <<Div(Num(1), Num(MaxVal)), Num(MaxVal)>>
    /\ Field("yerr") = <<Div(Num(MaxErr), Num(MaxVal)), Num(MaxErr)>>

\* C8: the Ratio1D built from any other data histogram and the same mc_hist
\* has the same yerr, x and xerr, and is equal in every field when the other
\* data histogram has the same bin values (whatever its variances).
C8_DataErrorIgnored ==
    (obj.kind = "Ratio1D" /\ via = "from_hist")
    => \A other \in DataHists :
          ~Ratio1D_from_hist_raises(other, input.mc_hist)
          => LET r == Ratio1D_from_hist(<<>>, other, input.mc_hist)
                 mine == FieldValues(heap, obj)
                 theirs == FieldValues(r.hp, r.obj)
             IN /\ theirs.yerr = mine.yerr
                /\ theirs.x = mine.x
                /\ theirs.xerr = mine.xerr
                /\ other.values = input.data_hist.values => theirs = mine

\* a Ratio1D whose data histogram carries its own errors, over an mc
\* histogram with an error in one bin
C8_Witness ==
    /\ obj.kind = "Ratio1D"
    /\ via = "from_hist"
    /\ input.data_hist.values = <<Num(1), Num(MaxVal)>>
    /\ input.data_hist.variances = <<Num(1), Num(MaxVal)>>
    /\ input.mc_hist.values = <<Num(MaxVal), Num(1)>>
    /\ input.mc_hist.variances = <<Num(0), Num(MaxErr * MaxErr)>>
    /\ Field("yerr") = <<Num(0), Num(MaxErr)>>

\* C9: Efficiency1D.plot on an Efficiency1D with N bins (y, ylow and yup of
\* length N) hands errorbar the pair (yerr_low, yerr_up) in that order,
\* yerr_low[i] = y[i]-ylow[i] and yerr_up[i] = yup[i]-y[i], and the stored
\* xerr as horizontal error exactly when the xerr flag is set.
C9_ErrorBars ==
    out.method = "Efficiency1D.plot"
    => LET N == Len(Field("y"))
       IN /\ via = "from_hist" => ~out.raised
          /\ (Len(Field("ylow")) = N /\ Len(Field("yup")) = N)
             => /\ ~out.raised
                /\ Len(out.call.yerr) = 2
                /\ Len(out.call.yerr[1]) = N /\ Len(out.call.yerr[2]) = N
                /\ \A i \in 1..N :
                      /\ out.call.yerr[1][i] = Sub(Field("y")[i], Field("ylow")[i])
                      /\ out.call.yerr[2][i] = Sub(Field("yup")[i], Field("y")[i])
                /\ out.call.x = Field("x") /\ out.call.y = Field("y")
                /\ out.xerr => out.call.xerr = Some(Field("xerr"))
                /\ ~out.xerr => out.call.xerr = NoArray

\* one bin of width MaxWidth with efficiency 1/MaxVal and interval [0, 1/2],
\* drawn with horizontal error bars
C9_Witness ==
    /\ out.method = "Efficiency1D.plot"
    /\ out.xerr
    /\ ~out.raised
    /\ Field("y") = <<Div(Num(1), Num(MaxVal))>>
    /\ Field("ylow") = <<Num(0)>>
    /\ Field("yup") = <<Div(Num(1), Num(2))>>
    /\ out.call.yerr = <<<<Div(Num(1), Num(MaxVal))>>,
                         <<Sub(Div(Num(1), Num(2)), Div(Num(1), Num(MaxVal)))>>>>
    /\ out.call.xerr = Some(<<Num(MaxWidth)>>)

\* the x array StatError.from_hist(h).plot hands to fill_between
StatErrorBandX(h) ==
    LET r == StatError_from_hist(<<>>, h)
        e == StatError_edges(r.hp, r.obj)
    IN e.hp[e.ref]

\* the x array RatioStatError1D.from_hist(h).fill_between hands over
RatioBandX(h) ==
    LET r == RatioStatError1D_from_hist(<<>>, h)
    IN RatioStatError1D_fill_between(r.hp, r.obj).call.x

\* C10 as claimed: on one histogram, StatError.from_hist(h).edges and the x
\* array of RatioStatError1D.from_hist(h).fill_between are the same array,
\* and in it adjacent bins share their boundary.
C10_StepBandsAgree ==
    (input.tag = "hist" /\ via = "from_hist")
    => /\ out.method = "StatError.plot"
          => /\ out.call.x = RatioBandX(input.hist)
             /\ \A i \in 1..(Bins(input.hist) - 1) :
                   out.call.x[2 * i] = out.call.x[2 * i + 1]
       /\ out.method = "RatioStatError1D.fill_between"
          => out.call.x = StatErrorBandX(input.hist)

\* p is a whole number of magnitude below 2^52
IsWhole(p) ==
    /\ p[1] = 0
    /\ IsZero(p) \/ (p[3] < 0 /\ p[3] > -53 /\ ~WLost(Sig(p), -p[3]))

WholeEdges(h) == \A i \in 1..Len(h.edges) : IsWhole(h.edges[i])

\* C10 amended: the two arrays always have the same length 2N; they are the
\* same array, in which adjacent bins share their boundary, when every edge
\* is a whole number (centre -/+ half-width is then computed without
\* rounding).
C10_StepBandsAgreeWhole ==
    (input.tag = "hist" /\ via = "from_hist")
    => /\ out.method = "StatError.plot"
          => /\ Len(out.call.x) = Len(RatioBandX(input.hist))
             /\ WholeEdges(input.hist)
                => /\ out.call.x = RatioBandX(input.hist)
                   /\ \A i \in 1..(Bins(input.hist) - 1) :
                         out.call.x[2 * i] = out.call.x[2 * i + 1]
       /\ out.method = "RatioStatError1D.fill_between"
          => /\ Len(out.call.x) = Len(StatErrorBandX(input.hist))
             /\ WholeEdges(input.hist) => out.call.x = StatErrorBandX(input.hist)

\* two bins of different widths between whole edges
C10_Witness ==
    /\ out.method = "StatError.plot"
    /\ via = "from_hist"
    /\ input.hist.edges = <<Num(0), Num(MaxWidth), Num(MaxWidth + 1)>>
    /\ out.call.x = <<Num(0), Num(MaxWidth), Num(MaxWidth), Num(MaxWidth + 1)>>

====
